---- MODULE Spec2Model ----
(***************************************************************************)
(* Model of cogs/test.py: the Github client (github_request, create_gist,  *)
(* edit_gist), the CreateGistModal that uses it, and the Test cog's        *)
(* update_pokemon task loop with its three validate_* change detectors.    *)
(*                                                                         *)
(* Two specifications are given.                                           *)
(*   Spec        the program: the update_pokemon loop and the create-gist  *)
(*               modal, each call constructing its own Github instance     *)
(*               (lines 128 and 376).                                      *)
(*   SpecClient  one Github instance shared by NCallers concurrent         *)
(*               github_request callers, any of which may be cancelled.    *)
(* discord.py's tasks.Loop, asyncio.Lock and pandas are libraries; their   *)
(* documented behaviour is modelled at the lines that call them.           *)
(***************************************************************************)
EXTENDS Naturals, Sequences, FiniteSets

\* ------------------------------------------------------------------ bounds
NCallers == 3       \* callers sharing one client in SpecClient
MaxAttempts == 3    \* requests one github_request call may issue
MaxDelay == 2       \* largest reset delay a response announces
MaxRows == 2        \* rows of the fetched table

\* ---------------------------------------------------------------- callers
HarnessCallers == 1..NCallers
TickCaller == NCallers + 1      \* the edit_gist call of update_pokemon
ModalCaller == NCallers + 2     \* the create_gist call of CreateGistModal
ProgramCallers == {TickCaller, ModalCaller}
Callers == HarnessCallers \cup ProgramCallers

\* The Github instance a caller uses: the program constructs one per call,
\* the callers of SpecClient share instance 0.
Client(c) == IF c \in HarnessCallers THEN 0 ELSE c
Clients == {Client(c) : c \in Callers}

None == "None"

VARIABLES
    req_lock,   \* per Github instance: the asyncio.Lock self._req_lock
    call,       \* per caller: the github_request call in progress
    outcome,    \* per program caller: how its last github_request call ended
    ready,      \* the bot is ready (wait_until_ready returns)
    tpc,        \* position of the update_pokemon task loop
    pk,         \* self.pk, the table read by the last fetch
    unc, unr, ml,                       \* self.unc, self.unr, self.ml
    unc_amount, unr_amount, ml_amount,  \* the stored counts, <<n>> (<<>>: no attribute)
    files,      \* the file map built by the current tick
    updated,    \* the categories the current tick lists as updated
    sent,       \* notifications sent by the current tick
    tick0,      \* the stored counts and flags when the current tick began
    tickEnd,    \* how the current tick ended ("running" until it does)
    mpc,        \* position of CreateGistModal.on_submit
    modal_url   \* the url on_submit sent back

clientVars == <<req_lock, call>>
tickVars == <<ready, tpc, pk, unc, unr, ml, unc_amount, unr_amount, ml_amount,
              files, updated, sent, tick0, tickEnd>>
modalVars == <<mpc, modal_url>>
vars == <<req_lock, call, outcome, ready, tpc, pk, unc, unr, ml,
          unc_amount, unr_amount, ml_amount, files, updated, sent, tick0, tickEnd,
          mpc, modal_url>>

\* --------------------------------------------------------------- responses
Urls == {"gist/1", "gist/2"}
Messages == {"Not Found", "Validation Failed"}
RateLimitMessage == "API rate limit exceeded"
StatusCodes == {200, 429, 404}

\* A response: status, the X-Ratelimit-Remaining and X-Ratelimit-Reset-After
\* headers, and the JSON body (html_url on success, message on an error).
Responses ==
    { [status |-> s, remaining |-> rem, reset_after |-> d, js |-> b] :
        s \in StatusCodes, rem \in {"0", "1"}, d \in 1..MaxDelay,
        b \in [html_url : Urls \cup {None}, message : Messages \cup {RateLimitMessage, None}] }

WellFormed(r) ==
    CASE r.status = 200 -> r.js.html_url # None /\ r.js.message = None
      [] r.status = 429 -> r.js.html_url = None /\ r.js.message = RateLimitMessage
      [] OTHER -> r.js.html_url = None /\ r.js.message \in Messages

ServerResponses == { r \in Responses : WellFormed(r) }

\* line 53
Exhausted(r) == r.status = 429 \/ r.remaining = "0"

\* line 59
Success(r) == 300 > r.status /\ r.status >= 200

\* mutant: sleep one second whatever the response announces
FixedDelay(r) == 1

\* line 55: discord.utils._parse_ratelimit_header gives the delay the
\* response's reset header announces
ParseRatelimitHeader(r) == r.reset_after

\* lines 59-62: what github_request hands to its caller for a response that
\* is not rate limited
NoJs == [html_url |-> None, message |-> None]

\* mutant: the error raised carries a message of the client's own
GenericError(r) ==
    IF Success(r) THEN [kind |-> "return", js |-> r.js, message |-> None]
    ELSE [kind |-> "raise", js |-> NoJs, message |-> "request failed"]

RequestResult(r) ==
    IF Success(r) THEN [kind |-> "return", js |-> r.js, message |-> None]
    ELSE [kind |-> "raise", js |-> NoJs, message |-> r.js.message]

\* lines 86 and 106: js["html_url"]
HtmlUrl(js) == js.html_url

\* ------------------------------------------------------------ asyncio.Lock
NewLock == [locked |-> FALSE, waiters |-> <<>>, woken |-> {}]

\* Lock._wake_up_first: the future of the first waiter gets its result
WakeUpFirst(lk) ==
    IF lk.waiters = <<>> THEN lk
    ELSE [lk EXCEPT !.woken = @ \cup {Head(lk.waiters)}]

\* Lock.release on a locked lock (lines 57 and 65)
Release(lk) == WakeUpFirst([lk EXCEPT !.locked = FALSE])

\* line 48, Lock.acquire: taken at once when unlocked with no waiter queued
CanTake(lk) == ~lk.locked /\ lk.waiters = <<>>

Without(s, c) == SelectSeq(s, LAMBDA x : x # c)

\* Lock.acquire of a waiter whose task is cancelled: the future leaves the
\* queue and, the lock being free, the wake-up is passed on
AbandonWait(lk, c) ==
    LET left == [lk EXCEPT !.waiters = Without(@, c), !.woken = @ \ {c}]
    IN  IF left.locked THEN left ELSE WakeUpFirst(left)

\* mutant: github_request has no finally clause
NoFinally(lk, n) == lk

\* lines 63-65, once per frame that unwinds: release if the lock is locked
RECURSIVE FinallyFrames(_, _)
FinallyFrames(lk, n) ==
    IF n = 0 THEN lk
    ELSE FinallyFrames(IF lk.locked THEN Release(lk) ELSE lk, n - 1)

\* --------------------------------------------------------- github_request
\* pc: idle | waiting (in acquire, line 48) | inflight (line 50) |
\*     sleeping (line 56)
\* depth: frames of github_request below the innermost one (line 58 recurses)
IdleCall == [pc |-> "idle", depth |-> 0, attempts |-> 0, limited |-> 0,
             sleeps |-> 0, delta |-> 0, reset |-> 0]

\* lines 36-50: enter a frame of github_request and acquire the lock; the
\* request is sent as soon as the lock is held
EnterFrame(lk, rec, c) ==
    IF CanTake(lk)
    THEN <<[lk EXCEPT !.locked = TRUE],
           [rec EXCEPT !.pc = "inflight", !.attempts = @ + 1]>>
    ELSE <<[lk EXCEPT !.waiters = Append(@, c)],
           [rec EXCEPT !.pc = "waiting"]>>

\* a call of github_request begins on a Github instance whose lock is lk
StartCall(c, lk) ==
    LET e == EnterFrame(lk, IdleCall, c)
    IN  /\ call[c].pc = "idle"
        /\ req_lock' = [req_lock EXCEPT ![Client(c)] = e[1]]
        /\ call' = [call EXCEPT ![c] = e[2]]

\* line 48: a queued caller whose future was set resumes holding the lock
LockGranted(c) ==
    /\ call[c].pc = "waiting"
    /\ c \in req_lock[Client(c)].woken
    /\ req_lock' = [req_lock EXCEPT ![Client(c)] =
                      [@ EXCEPT !.locked = TRUE, !.waiters = Without(@, c),
                                !.woken = @ \ {c}]]
    /\ call' = [call EXCEPT ![c] = [@ EXCEPT !.pc = "inflight", !.attempts = @ + 1]]
    /\ UNCHANGED <<outcome, tickVars, modalVars>>

\* mutant: the lock is released before the sleep
ReleaseThenSleep(c, r) ==
    /\ call[c].pc = "inflight"
    /\ Exhausted(r)
    /\ call[c].attempts < MaxAttempts
    /\ call' = [call EXCEPT ![c] = [@ EXCEPT !.pc = "sleeping", !.limited = @ + 1,
                                       !.delta = ParseRatelimitHeader(r),
                                       !.reset = r.reset_after]]
    /\ req_lock' = [req_lock EXCEPT ![Client(c)] = Release(@)]

\* lines 50-56: a rate limited response; the call sleeps holding the lock
Limited(c, r) ==
    /\ call[c].pc = "inflight"
    /\ Exhausted(r)
    /\ call[c].attempts < MaxAttempts
    /\ call' = [call EXCEPT ![c] = [@ EXCEPT !.pc = "sleeping", !.limited = @ + 1,
                                       !.delta = ParseRatelimitHeader(r),
                                       !.reset = r.reset_after]]
    /\ UNCHANGED req_lock

\* lines 59-65: any other response ends the call, every frame unwinding
Answered(c, r) ==
    /\ call[c].pc = "inflight"
    /\ ~Exhausted(r)
    /\ req_lock' = [req_lock EXCEPT ![Client(c)] = FinallyFrames(@, call[c].depth + 1)]
    /\ call' = [call EXCEPT ![c] = IdleCall]

\* line 50: the request raises aiohttp.ClientError; every frame unwinds
RequestError(c) ==
    /\ call[c].pc = "inflight"
    /\ req_lock' = [req_lock EXCEPT ![Client(c)] = FinallyFrames(@, call[c].depth + 1)]
    /\ call' = [call EXCEPT ![c] = IdleCall]

\* mutant: github_request recurses without releasing the lock
AfterSleepNoRelease(c) ==
    LET lk == req_lock[Client(c)]
        rec == [call[c] EXCEPT !.sleeps = @ + 1, !.delta = 0, !.reset = 0,
                               !.depth = @ + 1]
        e == EnterFrame(lk, rec, c)
    IN  /\ call[c].pc = "sleeping"
        /\ req_lock' = [req_lock EXCEPT ![Client(c)] = e[1]]
        /\ call' = [call EXCEPT ![c] = e[2]]

\* lines 56-58: the sleep ends, the lock is released and github_request
\* calls itself. Lock.release raises RuntimeError on an unlocked lock, which
\* unwinds every frame.
AfterSleep(c) ==
    LET lk == req_lock[Client(c)]
        rec == [call[c] EXCEPT !.sleeps = @ + 1, !.delta = 0, !.reset = 0,
                               !.depth = @ + 1]
        e == EnterFrame(Release(lk), rec, c)
    IN  /\ call[c].pc = "sleeping"
        /\ IF lk.locked
           THEN /\ req_lock' = [req_lock EXCEPT ![Client(c)] = e[1]]
                /\ call' = [call EXCEPT ![c] = e[2]]
           ELSE /\ req_lock' = [req_lock EXCEPT ![Client(c)] =
                                   FinallyFrames(@, call[c].depth + 1)]
                /\ call' = [call EXCEPT ![c] = IdleCall]

\* CancelledError delivered to the task running the call, where it is
\* suspended: in acquire (line 48, outside the try of the innermost frame),
\* in the request (line 50) or in the sleep (line 56)
Cancelled(c) ==
    LET lk == req_lock[Client(c)]
    IN  /\ call[c].pc \in {"waiting", "inflight", "sleeping"}
        /\ req_lock' = [req_lock EXCEPT ![Client(c)] =
                IF call[c].pc = "waiting"
                THEN FinallyFrames(AbandonWait(lk, c), call[c].depth)
                ELSE FinallyFrames(lk, call[c].depth + 1)]
        /\ call' = [call EXCEPT ![c] = IdleCall]

\* ------------------------------------------- how a call ended, per caller
\* slept_on: the status of the response the call is sleeping on
NoOutcome == [kind |-> "none", js |-> NoJs, message |-> None, final |-> NoJs,
              attempts |-> 0, limited |-> 0, sleeps |-> 0, slept_on |-> 0]

\* the outcomes once the call of c, if the program made it, sleeps on a
\* response of status st (0: the sleep is over)
SleepsOn(c, st) ==
    [d \in ProgramCallers |->
        IF d = c THEN [outcome[d] EXCEPT !.slept_on = st] ELSE outcome[d]]

\* the outcome of the call of c that response r ends (final: the body of r)
Ended(c, r) ==
    LET res == RequestResult(r)
    IN  [kind |-> res.kind, js |-> res.js, message |-> res.message, final |-> r.js,
         attempts |-> call[c].attempts, limited |-> call[c].limited,
         sleeps |-> call[c].sleeps, slept_on |-> 0]

\* the outcome of the call of c that an exception of the given kind ends
Aborted(c, kind) ==
    [NoOutcome EXCEPT !.kind = kind, !.attempts = call[c].attempts,
                      !.limited = call[c].limited, !.sleeps = call[c].sleeps]

\* ------------------------------------------------------------- the table
\* A row of the sheet: the columns the three categories select on.
Unclaimed == [person_in_charge |-> None, person_id |-> None, link |-> None,
              status |-> None]
Claimed == [person_in_charge |-> "user", person_id |-> "id", link |-> None,
            status |-> None]
Submitted == [person_in_charge |-> "user", person_id |-> "id", link |-> "imgur",
              status |-> None]
Approved == [person_in_charge |-> "user", person_id |-> "id", link |-> "imgur",
             status |-> "Approved"]
RowKinds == {Unclaimed, Claimed, Submitted, Approved}

RECURSIVE Repeat(_, _)
Repeat(row, n) == IF n = 0 THEN <<>> ELSE <<row>> \o Repeat(row, n - 1)

\* the tables of at most MaxRows rows, rows of one kind adjacent
Tables ==
    { Repeat(Unclaimed, a) \o Repeat(Claimed, b) \o Repeat(Submitted, c)
        \o Repeat(Approved, d) :
        a \in 0..MaxRows, b \in 0..MaxRows, c \in 0..MaxRows, d \in 0..MaxRows }
    \cap UNION { [1..n -> RowKinds] : n \in 0..MaxRows }

\* line 237
UnclaimedRows(t) == SelectSeq(t, LAMBDA row : row.person_in_charge = None)
\* line 285
UnreviewedRows(t) ==
    SelectSeq(t, LAMBDA row : row.person_id # None /\ row.link # None
                              /\ row.status # "Approved")
\* line 319
MissingLinkRows(t) ==
    SelectSeq(t, LAMBDA row : row.person_id # None /\ row.link = None)

\* lines 239, 289, 323
UncCount(t) == Len(UnclaimedRows(t))
UnrCount(t) == Len(UnreviewedRows(t))
MlCount(t) == Len(MissingLinkRows(t))

\* lines 240-241, 291-292, 325-326: the attribute exists and equals the count
Absent == <<>>
HasAttr(stored) == stored # Absent

\* mutant: the count is never found unchanged
AlwaysChanged(stored, amount) == FALSE

Unchanged(stored, amount) == HasAttr(stored) /\ stored[1] = amount

\* ------------------------------------------ the update_pokemon task loop
\* tpc: before_loop (line 389) | sleep (between iterations) | backoff (after
\*   an exception tasks.Loop retries) | unc, unr, unr_users, ml, ml_users,
\*   files, edit_gist, send (inside an iteration) | failed | cancelled
Cats == {"unc", "unr", "ml"}
NoFiles == [c \in Cats |-> <<>>]

\* the stored counts and flags as an iteration begins; repeat: the table it
\* read is the table the iteration before it read
Snapshot(repeat) ==
    [unc_amount |-> unc_amount, unr_amount |-> unr_amount, ml_amount |-> ml_amount,
     unc |-> unc, unr |-> unr, ml |-> ml, repeat |-> repeat]

\* the loop's task is suspended at an await
Suspended == tpc \in {"before_loop", "sleep", "backoff", "unr_users", "ml_users",
                      "edit_gist", "send"}

\* tasks.Loop ends on an exception of the body that is not one of OSError,
\* aiohttp.ClientError, asyncio.TimeoutError, GatewayNotFound,
\* ConnectionClosed; on those it sleeps a backoff delay and runs the body again
Raise(exc) ==
    /\ tpc' = IF exc \in {"OSError", "ClientError"} THEN "backoff" ELSE "failed"
    /\ tickEnd' = exc

\* the bot becomes ready
BotReady ==
    /\ ~ready
    /\ ready' = TRUE
    /\ UNCHANGED <<clientVars, outcome, tpc, pk, unc, unr, ml, unc_amount,
                   unr_amount, ml_amount, files, updated, sent, tick0, tickEnd, modalVars>>

\* mutant: the loop has no before_loop hook waiting for the bot
BeforeUpdateNoWait ==
    /\ tpc = "before_loop"
    /\ tpc' = "sleep"
    /\ UNCHANGED <<clientVars, outcome, ready, pk, unc, unr, ml, unc_amount,
                   unr_amount, ml_amount, files, updated, sent, tick0, tickEnd, modalVars>>

\* lines 387-389: before_loop returns once the bot is ready
BeforeUpdate ==
    /\ tpc = "before_loop"
    /\ ready
    /\ tpc' = "sleep"
    /\ UNCHANGED <<clientVars, outcome, ready, pk, unc, unr, ml, unc_amount,
                   unr_amount, ml_amount, files, updated, sent, tick0, tickEnd, modalVars>>

\* mutant: the exception of pd.read_csv is swallowed and the iteration goes
\* on with the table of the iteration before
ReadCsvSwallowed(exc) ==
    /\ tpc' = "unc"
    /\ tickEnd' = exc
    /\ pk' = pk

\* line 341: pd.read_csv raises; nothing of the iteration has run yet
ReadCsvRaises(exc) ==
    /\ Raise(exc)
    /\ pk' = pk

\* lines 341-343: an iteration begins with pd.read_csv, which returns a
\* table, raises URLError (an OSError) or raises ParserError
ReadCsv ==
    /\ tpc \in {"sleep", "backoff"}
    /\ files' = NoFiles
    /\ updated' = {}
    /\ sent' = <<>>
    /\ outcome' = [outcome EXCEPT ![TickCaller] = NoOutcome]
    /\ \/ \E t \in Tables :
            /\ pk' = t
            /\ tpc' = "unc"
            /\ tickEnd' = "running"
            /\ tick0' = Snapshot(HasAttr(unc_amount) /\ t = pk)
       \/ \E exc \in {"OSError", "ParserError"} :
            /\ ReadCsvRaises(exc)
            /\ tick0' = Snapshot(FALSE)
    /\ UNCHANGED <<clientVars, ready, unc, unr, ml, unc_amount, unr_amount,
                   ml_amount, modalVars>>

\* lines 235-249 and the unpacking of line 345: False does not unpack
ValidateUnclaimed ==
    /\ tpc = "unc"
    /\ IF Unchanged(unc_amount, UncCount(pk))
       THEN unc' = FALSE /\ Raise("TypeError") /\ UNCHANGED unc_amount
       ELSE unc_amount' = <<UncCount(pk)>> /\ tpc' = "unr" /\ UNCHANGED <<unc, tickEnd>>
    /\ UNCHANGED <<clientVars, outcome, ready, pk, unr, ml, unr_amount, ml_amount,
                   files, updated, sent, tick0, modalVars>>

\* lines 283-296/299 and the unpacking of line 347; get_unreviewed awaits
\* fetch_user once per group, so only when a row matched
ValidateUnreviewed ==
    /\ tpc = "unr"
    /\ IF Unchanged(unr_amount, UnrCount(pk))
       THEN unr' = FALSE /\ Raise("TypeError") /\ UNCHANGED unr_amount
       ELSE IF UnrCount(pk) > 0
       THEN tpc' = "unr_users" /\ UNCHANGED <<unr, unr_amount, tickEnd>>
       ELSE unr_amount' = <<UnrCount(pk)>> /\ tpc' = "ml" /\ UNCHANGED <<unr, tickEnd>>
    /\ UNCHANGED <<clientVars, outcome, ready, pk, unc, ml, unc_amount, ml_amount,
                   files, updated, sent, tick0, modalVars>>

\* lines 273-281, 297/300: fetch_user returns, or raises discord.HTTPException
GetUnreviewed ==
    /\ tpc = "unr_users"
    /\ \/ unr_amount' = <<UnrCount(pk)>> /\ tpc' = "ml" /\ UNCHANGED tickEnd
       \/ Raise("HTTPException") /\ UNCHANGED unr_amount
    /\ UNCHANGED <<clientVars, outcome, ready, pk, unc, unr, ml, unc_amount,
                   ml_amount, files, updated, sent, tick0, modalVars>>

\* lines 317-330/333 and the unpacking of line 349
ValidateMissingLink ==
    /\ tpc = "ml"
    /\ IF Unchanged(ml_amount, MlCount(pk))
       THEN ml' = FALSE /\ Raise("TypeError") /\ UNCHANGED ml_amount
       ELSE IF MlCount(pk) > 0
       THEN tpc' = "ml_users" /\ UNCHANGED <<ml, ml_amount, tickEnd>>
       ELSE ml_amount' = <<MlCount(pk)>> /\ tpc' = "files" /\ UNCHANGED <<ml, tickEnd>>
    /\ UNCHANGED <<clientVars, outcome, ready, pk, unc, unr, unc_amount, unr_amount,
                   files, updated, sent, tick0, modalVars>>

\* lines 304-315, 331/334
GetMissingLink ==
    /\ tpc = "ml_users"
    /\ \/ ml_amount' = <<MlCount(pk)>> /\ tpc' = "files" /\ UNCHANGED tickEnd
       \/ Raise("HTTPException") /\ UNCHANGED ml_amount
    /\ UNCHANGED <<clientVars, outcome, ready, pk, unc, unr, ml, unc_amount,
                   unr_amount, files, updated, sent, tick0, modalVars>>

\* lines 351-372: the file map holds the categories whose flag is set, each
\* with the count its content renders
FileMap ==
    [c \in Cats |->
        CASE c = "unc" -> IF unc THEN <<UncCount(pk)>> ELSE <<>>
          [] c = "unr" -> IF unr THEN <<UnrCount(pk)>> ELSE <<>>
          [] c = "ml" -> IF ml THEN <<MlCount(pk)>> ELSE <<>>]

\* lines 353, 360, 367
UpdatedList == {c \in Cats : FileMap[c] # <<>>}

\* lines 351-383: build the file map; return when no flag is set, otherwise
\* construct a Github and call edit_gist, which calls github_request
Publish ==
    /\ tpc = "files"
    /\ files' = FileMap
    /\ updated' = UpdatedList
    /\ IF ~(unc \/ unr \/ ml)
       THEN /\ tpc' = "sleep"
            /\ tickEnd' = "nochange"
            /\ UNCHANGED clientVars
       ELSE /\ tpc' = "edit_gist"
            /\ StartCall(TickCaller, NewLock)
            /\ UNCHANGED tickEnd
    /\ UNCHANGED <<outcome, ready, pk, unc, unr, ml, unc_amount, unr_amount,
                   ml_amount, sent, tick0, modalVars>>

\* lines 50-56 for caller c: a rate limited response arrives
RateLimited(c) ==
    /\ \E r \in ServerResponses : Limited(c, r) /\ outcome' = SleepsOn(c, r.status)
    /\ UNCHANGED <<tickVars, modalVars>>

\* lines 56-58 for caller c: the sleep is over
Resumed(c) ==
    /\ AfterSleep(c)
    /\ outcome' = SleepsOn(c, 0)
    /\ UNCHANGED <<tickVars, modalVars>>

\* lines 59-62, 106, 379-384: the response that ends edit_gist; the url is
\* returned to update_pokemon, CommandError passes through edit_gist
EditGistAnswered ==
    /\ tpc = "edit_gist"
    /\ \E r \in ServerResponses :
          /\ Answered(TickCaller, r)
          /\ outcome' = [outcome EXCEPT ![TickCaller] = Ended(TickCaller, r)]
    /\ IF outcome'[TickCaller].kind = "return"
       THEN tpc' = "send" /\ UNCHANGED tickEnd
       ELSE Raise("CommandError")
    /\ UNCHANGED <<ready, pk, unc, unr, ml, unc_amount, unr_amount, ml_amount,
                   files, updated, sent, tick0, modalVars>>

\* line 50 under edit_gist: the request raises aiohttp.ClientError
EditGistRequestError ==
    /\ tpc = "edit_gist"
    /\ RequestError(TickCaller)
    /\ outcome' = [outcome EXCEPT ![TickCaller] = Aborted(TickCaller, "ClientError")]
    /\ Raise("ClientError")
    /\ UNCHANGED <<ready, pk, unc, unr, ml, unc_amount, unr_amount, ml_amount,
                   files, updated, sent, tick0, modalVars>>

\* lines 384-385: the notification is sent, or send raises HTTPException
UpdateMsg == [updated |-> updated, url |-> HtmlUrl(outcome[TickCaller].js)]

Notify ==
    /\ tpc = "send"
    /\ \/ sent' = Append(sent, UpdateMsg) /\ tpc' = "sleep" /\ tickEnd' = "ok"
       \/ Raise("HTTPException") /\ UNCHANGED sent
    /\ UNCHANGED <<clientVars, outcome, ready, pk, unc, unr, ml, unc_amount,
                   unr_amount, ml_amount, files, updated, tick0, modalVars>>

\* lines 224-225: cog_unload cancels the loop's task, which gets
\* CancelledError at the await it is suspended in
CogUnload ==
    /\ Suspended
    /\ tpc' = "cancelled"
    /\ tickEnd' = IF tickEnd = "running" THEN "CancelledError" ELSE tickEnd
    /\ IF tpc = "edit_gist"
       THEN /\ Cancelled(TickCaller)
            /\ outcome' = [outcome EXCEPT ![TickCaller] =
                              Aborted(TickCaller, "CancelledError")]
       ELSE UNCHANGED <<clientVars, outcome>>
    /\ UNCHANGED <<ready, pk, unc, unr, ml, unc_amount, unr_amount, ml_amount,
                   files, updated, sent, tick0, modalVars>>

\* ------------------------------------------------------- CreateGistModal
\* mpc: idle | create_gist (line 129) | send_message (line 136) | on_error
\* lines 127-134, 67-85: on_submit constructs a Github and calls create_gist
ModalSubmit ==
    /\ mpc = "idle"
    /\ mpc' = "create_gist"
    /\ modal_url' = None
    /\ StartCall(ModalCaller, NewLock)
    /\ UNCHANGED <<outcome, tickVars>>

\* lines 59-62, 86, 129: the response that ends create_gist
CreateGistAnswered ==
    /\ mpc = "create_gist"
    /\ \E r \in ServerResponses :
          /\ Answered(ModalCaller, r)
          /\ outcome' = [outcome EXCEPT ![ModalCaller] = Ended(ModalCaller, r)]
    /\ mpc' = IF outcome'[ModalCaller].kind = "return" THEN "send_message"
              ELSE "on_error"
    /\ UNCHANGED <<tickVars, modal_url>>

\* line 50 under create_gist: the request raises aiohttp.ClientError
CreateGistRequestError ==
    /\ mpc = "create_gist"
    /\ RequestError(ModalCaller)
    /\ outcome' = [outcome EXCEPT ![ModalCaller] = Aborted(ModalCaller, "ClientError")]
    /\ mpc' = "on_error"
    /\ UNCHANGED <<tickVars, modal_url>>

\* line 136, or the modal's on_error after an exception: on_submit is over
ModalDone ==
    /\ mpc \in {"send_message", "on_error"}
    /\ modal_url' = IF mpc = "send_message" THEN HtmlUrl(outcome[ModalCaller].js)
                    ELSE modal_url
    /\ mpc' = "idle"
    /\ outcome' = [outcome EXCEPT ![ModalCaller] = NoOutcome]
    /\ UNCHANGED <<clientVars, tickVars>>

\* ------------------------------------------- callers of a shared client
\* a task calls github_request on the shared Github instance
Call(c) ==
    /\ StartCall(c, req_lock[Client(c)])
    /\ UNCHANGED <<outcome, tickVars, modalVars>>

\* lines 59-65: the response that ends the call of c
Served(c) ==
    /\ \E r \in ServerResponses : Answered(c, r)
    /\ UNCHANGED <<outcome, tickVars, modalVars>>

\* line 50: the request of c raises aiohttp.ClientError
Failed(c) ==
    /\ RequestError(c)
    /\ UNCHANGED <<outcome, tickVars, modalVars>>

\* the task of c is cancelled
Cancel(c) ==
    /\ Cancelled(c)
    /\ UNCHANGED <<outcome, tickVars, modalVars>>

\* ---------------------------------------------------------- specifications
\* lines 207-222 and 30-34: the cog is constructed and the loop started
Init ==
    /\ req_lock = [g \in Clients |-> NewLock]
    /\ call = [c \in Callers |-> IdleCall]
    /\ outcome = [c \in ProgramCallers |-> NoOutcome]
    /\ ready = FALSE
    /\ tpc = "before_loop"
    /\ pk = <<>>
    /\ unc = TRUE /\ unr = TRUE /\ ml = TRUE
    /\ unc_amount = Absent /\ unr_amount = Absent /\ ml_amount = Absent
    /\ files = NoFiles
    /\ updated = {}
    /\ sent = <<>>
    /\ tick0 = [unc_amount |-> Absent, unr_amount |-> Absent, ml_amount |-> Absent,
                unc |-> TRUE, unr |-> TRUE, ml |-> TRUE, repeat |-> FALSE]
    /\ tickEnd = "none"
    /\ mpc = "idle"
    /\ modal_url = None

Next ==
    \/ BotReady
    \/ BeforeUpdate
    \/ ReadCsv
    \/ ValidateUnclaimed
    \/ ValidateUnreviewed
    \/ GetUnreviewed
    \/ ValidateMissingLink
    \/ GetMissingLink
    \/ Publish
    \/ EditGistAnswered
    \/ EditGistRequestError
    \/ Notify
    \/ CogUnload
    \/ ModalSubmit
    \/ CreateGistAnswered
    \/ CreateGistRequestError
    \/ ModalDone
    \/ \E c \in ProgramCallers : RateLimited(c) \/ Resumed(c)

Spec == Init /\ [][Next]_vars

NextClient ==
    \E c \in HarnessCallers :
        \/ Call(c)
        \/ LockGranted(c)
        \/ RateLimited(c)
        \/ Resumed(c)
        \/ Served(c)
        \/ Failed(c)
        \/ Cancel(c)

SpecClient == Init /\ [][NextClient]_vars

\* the event loop resumes a task whose acquire was granted (line 48) or
\* whose sleep is over (line 56), and the server answers a request in flight
\* (line 50); whether a call begins or a task is cancelled is left open
FairClient ==
    /\ SpecClient
    /\ \A c \in HarnessCallers :
           WF_vars(LockGranted(c)) /\ WF_vars(Resumed(c)) /\ WF_vars(Served(c))

\* ------------------------------------------------------------ properties
Stored(c) ==
    CASE c = "unc" -> unc_amount [] c = "unr" -> unr_amount [] c = "ml" -> ml_amount
Stored0(c) ==
    CASE c = "unc" -> tick0.unc_amount [] c = "unr" -> tick0.unr_amount
      [] c = "ml" -> tick0.ml_amount
Count(c) ==
    CASE c = "unc" -> UncCount(pk) [] c = "unr" -> UnrCount(pk) [] c = "ml" -> MlCount(pk)

\* the current iteration read a table
TableRead == tickEnd \notin {"none", "OSError", "ParserError"}
\* the current iteration is over
TickOver == tickEnd \notin {"none", "running"}
\* the categories dirty in the current iteration: first evaluation, or the
\* count differs from the count stored when the iteration began
DirtySet == {c \in Cats : ~(HasAttr(Stored0(c)) /\ Stored0(c)[1] = Count(c))}
\* the categories whose stored count the current iteration changed
Committed == {c \in Cats : Stored(c) # Stored0(c)}
\* the categories of the file map the current iteration built
Published == {c \in Cats : files[c] # <<>>}
\* edit_gist returned in the current iteration
WriteSucceeded == outcome[TickCaller].kind = "return"
\* the current iteration has sent no request
NoRequest == call[TickCaller].pc = "idle" /\ outcome[TickCaller].kind = "none"

\* C1 (as claimed): a category's stored count differs from the count stored
\* when the tick began if and only if the edit_gist write holding that
\* category's file has returned successfully in this tick.
C1_CountUpdatedIffWritten ==
    \A c \in Cats : (c \in Committed) <=> (WriteSucceeded /\ c \in Published)

\* C2 (as claimed): when the edit_gist call of a tick fails, every stored
\* count is what it was when the tick began.
C2_FailedWriteKeepsCounts ==
    tickEnd \in {"CommandError", "ClientError"} => Committed = {}

\* C3 (as claimed): when a tick is over, however it ended, the stored counts
\* of its dirty categories were all updated or none was.
C3_NoPartialCommit ==
    (TickOver /\ TableRead) => (Committed = {} \/ Committed = DirtySet)

\* C4 (as claimed): a tick that read its table and met no failure of the
\* network or of the remote services passes to edit_gist a file map holding
\* exactly its dirty categories, so a tick in which only some categories
\* changed publishes exactly those.
C4_PublishesExactlyDirty ==
    tickEnd \in {"ok", "nochange", "TypeError"} => Published = DirtySet

\* C5 (as claimed): after a tick that failed, in the fetch, in the evaluation
\* of a category or in edit_gist, the loop is still scheduled.
C5_LoopSurvivesFailedTick ==
    tickEnd \in {"OSError", "ParserError", "HTTPException", "CommandError"}
        => tpc # "failed"

\* C6: a tick that read a table on which every category's count equals its
\* stored count, and likewise a tick that read the table the tick before it
\* read, sends no request and no notification.
C6_UnchangedTableWritesNothing ==
    (TableRead /\ (DirtySet = {} \/ tick0.repeat)) => (NoRequest /\ sent = <<>>)

C6_Witness ==
    /\ TickOver /\ TableRead
    /\ DirtySet = {} /\ tick0.repeat
    /\ UncCount(pk) > 0
    /\ NoRequest /\ sent = <<>>

InFlight(g) == {c \in Callers : Client(c) = g /\ call[c].pc = "inflight"}

\* C7 (as claimed): on one Github instance at most one request is in flight.
C7_OneRequestInFlight ==
    \A g \in Clients : Cardinality(InFlight(g)) <= 1

\* C8: a call that returns has made one attempt more than the rate limited
\* responses it received and has slept once after each of them, each sleep
\* lasting the delay that response announced and ending before the next
\* attempt; what it returns is the body of the last response, which is what
\* the caller goes on with.
C8_RetriesThenReturnsLast ==
    \A c \in ProgramCallers :
        /\ call[c].pc = "inflight" =>
              call[c].attempts = call[c].limited + 1 /\ call[c].sleeps = call[c].limited
        /\ call[c].pc = "sleeping" =>
              /\ call[c].delta = call[c].reset
              /\ call[c].attempts = call[c].limited
              /\ call[c].sleeps + 1 = call[c].limited
        /\ outcome[c].kind = "return" =>
              /\ outcome[c].attempts = outcome[c].limited + 1
              /\ outcome[c].sleeps = outcome[c].limited
              /\ outcome[c].js = outcome[c].final
              /\ outcome[c].js.html_url \in Urls
              /\ call[c].pc = "idle"
              /\ c = TickCaller => \A i \in 1..Len(sent) : sent[i].url = outcome[c].final.html_url
              /\ c = ModalCaller => mpc = "send_message"

C8_Witness ==
    /\ outcome[TickCaller].kind = "return"
    /\ outcome[TickCaller].limited = 2
    /\ outcome[TickCaller].attempts = 3
    /\ Len(sent) = 1

\* C9: a call ended by a response that is neither a success nor rate limited
\* raises an error carrying that response's message, makes no attempt after
\* it, and the error ends edit_gist and update_pokemon, or create_gist and
\* on_submit, with no further request.
C9_ApiErrorRaisedOnce ==
    \A c \in ProgramCallers :
        outcome[c].kind = "raise" =>
            /\ outcome[c].message = outcome[c].final.message
            /\ outcome[c].message \in Messages
            /\ outcome[c].attempts = outcome[c].limited + 1
            /\ call[c].pc = "idle"
            /\ c = TickCaller => tickEnd = "CommandError" /\ tpc = "failed" /\ sent = <<>>
            /\ c = ModalCaller => mpc = "on_error"

C9_Witness ==
    /\ outcome[TickCaller].kind = "raise"
    /\ outcome[TickCaller].attempts = 1
    /\ outcome[ModalCaller].kind = "raise"
    /\ outcome[ModalCaller].message = "Validation Failed"

\* C10: a tick whose fetch or parse failed has sent no request and no
\* notification, and every stored count and flag is what it was when the
\* tick began.
C10_FetchFailureChangesNothing ==
    tickEnd \in {"OSError", "ParserError"} =>
        /\ NoRequest /\ sent = <<>>
        /\ Committed = {}
        /\ unc = tick0.unc /\ unr = tick0.unr /\ ml = tick0.ml

C10_Witness ==
    /\ tickEnd \in {"OSError", "ParserError"}
    /\ HasAttr(unc_amount) /\ HasAttr(unr_amount) /\ HasAttr(ml_amount)
    /\ tpc = "failed"

\* C11 (as claimed): a tick whose edit_gist returned has sent exactly one
\* notification, listing the categories of its file map and the url that
\* edit_gist returned; a tick without a successful write has sent none.
C11_OneNotificationPerWrite ==
    TickOver =>
        IF WriteSucceeded
        THEN sent = <<[updated |-> Published,
                       url |-> HtmlUrl(outcome[TickCaller].js)]>>
        ELSE sent = <<>>

\* C12 (as claimed): cog_unload never interrupts a tick: no tick ends with
\* the CancelledError of the loop's task.
C12_UnloadBetweenTicks ==
    tpc = "cancelled" => tickEnd # "CancelledError"

\* C13: while the bot is not ready the loop has run no tick: no table was
\* read, no count is stored, no flag is cleared, no request and no
\* notification was sent.
C13_NoTickBeforeReady ==
    ~ready =>
        /\ tpc \in {"before_loop", "cancelled"}
        /\ tickEnd = "none"
        /\ unc_amount = Absent /\ unr_amount = Absent /\ ml_amount = Absent
        /\ unc /\ unr /\ ml
        /\ NoRequest /\ sent = <<>>

C13_Witness ==
    /\ ~ready
    /\ tpc = "before_loop"
    /\ mpc = "send_message"

\* C14 (as claimed): a call never sleeps on a response whose status is 2xx.
C14_SuccessReturnsAtOnce ==
    \A c \in ProgramCallers :
        call[c].pc = "sleeping" =>
            ~(outcome[c].slept_on >= 200 /\ outcome[c].slept_on < 300)

\* the callers of client g that acquired its lock and have not released it
Holders(g) == {c \in Callers : Client(c) = g /\ call[c].pc \in {"inflight", "sleeping"}}
\* the callers of client g inside github_request
Active(g) == {c \in Callers : Client(c) = g /\ call[c].pc # "idle"}

\* C15: every exit of github_request leaves the gate released: a client with
\* no active call has its lock unlocked with nobody queued, a locked lock
\* always has a call that took it still inside its try block, and an
\* unlocked lock with callers queued has woken the first of them, so the
\* lock is never left locked, or its queue asleep, for good.
C15_GateReleasedOnExit ==
    \A g \in Clients :
        /\ Active(g) = {} => req_lock[g] = NewLock
        /\ req_lock[g].locked => Holders(g) # {}
        /\ (~req_lock[g].locked /\ req_lock[g].waiters # <<>>) =>
               Head(req_lock[g].waiters) \in req_lock[g].woken

\* an exit has just released the gate to a caller queued on the retry path
C15_Witness ==
    \E c \in HarnessCallers :
        /\ ~req_lock[0].locked
        /\ Holders(0) = {}
        /\ call[c].pc = "waiting" /\ call[c].depth >= 1
        /\ c \in req_lock[0].woken

\* C16 (as claimed): a call that sleeps for the reset delay does not hold the
\* gate.
C16_GateFreeDuringSleep ==
    \A c \in ProgramCallers :
        call[c].pc = "sleeping" => ~req_lock[Client(c)].locked

\* C16 (amended): a call holds the gate while it sleeps for the reset delay,
\* and holds it again, reacquired, while the retry's request is in flight.
C16_GateHeldDuringSleep ==
    \A c \in ProgramCallers :
        call[c].pc \in {"sleeping", "inflight"} => req_lock[Client(c)].locked

\* a second sleep: the gate was released after the first one and reacquired
C16_Witness ==
    /\ call[TickCaller].pc = "sleeping"
    /\ call[TickCaller].depth >= 1
    /\ req_lock[Client(TickCaller)].locked

\* C17 (as claimed): while a caller stays asleep for a reset delay, no other
\* caller of its client acquires the gate and issues a request.
C17_NoAcquireDuringSleep ==
    [][\A c, d \in Callers :
          (c # d /\ Client(c) = Client(d)
              /\ call[c].pc = "sleeping" /\ call'[c].pc = "sleeping")
          => ~(call[d].pc # "inflight" /\ call'[d].pc = "inflight")]_vars

\* C18 (as claimed): the gate is released only by its holder: while a call
\* that acquired the gate is still inside its try block the gate stays
\* locked, and no second call holds it.
C18_ReleasedOnlyByHolder ==
    \A g \in Clients :
        Holders(g) # {} => (req_lock[g].locked /\ Cardinality(Holders(g)) = 1)

\* C19: with the server answering every request, in the end with a response
\* that is not rate limited, every call of github_request ends (it returns
\* or raises), and every caller queued in acquire, on its first attempt or
\* on a retry, gets the gate unless its task is cancelled first.
C19_CallsEndAndWaitersAcquire ==
    \A c \in HarnessCallers :
        /\ (call[c].pc # "idle") ~> (call[c].pc = "idle")
        /\ (call[c].pc = "waiting") ~> (call[c].pc \in {"inflight", "idle"})

\* a retry queued in acquire behind another caller's retry, the gate held by
\* a third
C19_Witness ==
    \E c, d, e \in HarnessCallers :
        /\ call[c].pc = "waiting" /\ call[c].depth >= 1
        /\ call[d].pc = "waiting" /\ call[d].depth >= 1
        /\ req_lock[0].waiters = <<d, c>>
        /\ call[e].pc = "inflight"

\* C20 (as claimed): the tick's edit_gist request and the modal's create_gist
\* request are never in flight together, and neither is in flight while the
\* other waits out a rate limit.
C20_OneGateForAllRequests ==
    Cardinality({c \in ProgramCallers : call[c].pc \in {"inflight", "sleeping"}}) <= 1
====
